---- MODULE Spec2Model ----
(***************************************************************************)
(* Model of scripts/build.py: the build of a static board from a remote    *)
(* task list.  Python strings are sequences of one-character strings, so   *)
(* that splitting, trimming, escaping, parsing and comparison are computed *)
(* rather than assumed.                                                    *)
(***************************************************************************)
EXTENDS Integers, Sequences, FiniteSets, TLC

(***************************************************************************)
(* Strings                                                                 *)
(***************************************************************************)

\* The characters of the model in code point order; "sup2" is U+00B2, a
\* character for which str.isdigit() is true and int() raises ValueError.
CodeOrder ==
  << " ", "#", "&", ",", "-", "0", "1", "2", "3", "4", "5", "6", "7", "8", "9",
     ":", ";", "<", ">", "A", "B", "C", "D", "M", "N", "O", "P", "R", "S", "T",
     "U", "a", "b", "c", "d", "e", "g", "h", "i", "j", "l", "m", "n", "o", "p", "r",
     "s", "t", "u", "x", "|", "sup2" >>

Ord(c) == CHOOSE i \in 1..Len(CodeOrder) : CodeOrder[i] = c

DecimalDigits == << "0", "1", "2", "3", "4", "5", "6", "7", "8", "9" >>

IsDecimalChar(c) == \E i \in 1..10 : DecimalDigits[i] = c

DigitValue(c) == (CHOOSE i \in 1..10 : DecimalDigits[i] = c) - 1

\* str.isdigit() on one character: the decimal digits and U+00B2.
IsDigitChar(c) == IsDecimalChar(c) \/ c = "sup2"

\* Lexicographic comparison of Python strings (by code point).
RECURSIVE StrLess(_, _)
StrLess(a, b) ==
  IF b = <<>> THEN FALSE
  ELSE IF a = <<>> THEN TRUE
  ELSE IF Head(a) = Head(b) THEN StrLess(Tail(a), Tail(b))
  ELSE Ord(Head(a)) < Ord(Head(b))

RECURSIVE Strip(_)
Strip(s) ==
  IF s = <<>> THEN s
  ELSE IF Head(s) = " " THEN Strip(Tail(s))
  ELSE IF s[Len(s)] = " " THEN Strip(SubSeq(s, 1, Len(s) - 1))
  ELSE s

\* s.split(sep) for a one-character separator: a sequence of strings.
RECURSIVE Split(_, _)
Split(s, sep) ==
  IF \A i \in 1..Len(s) : s[i] # sep THEN << s >>
  ELSE LET i == CHOOSE j \in 1..Len(s) :
                  s[j] = sep /\ \A k \in 1..(j - 1) : s[k] # sep
       IN  << SubSeq(s, 1, i - 1) >> \o Split(SubSeq(s, i + 1, Len(s)), sep)

EscapeChar(c) ==
  CASE c = "&" -> << "&", "a", "m", "p", ";" >>
    [] c = "<" -> << "&", "l", "t", ";" >>
    [] c = ">" -> << "&", "g", "t", ";" >>
    [] OTHER -> << c >>

\* html.escape
RECURSIVE escape(_)
escape(s) == IF s = <<>> THEN <<>> ELSE EscapeChar(Head(s)) \o escape(Tail(s))

LowerChar(c) ==
  CASE c = "A" -> "a" [] c = "D" -> "d" [] c = "M" -> "m" [] c = "N" -> "n"
    [] c = "O" -> "o" [] c = "P" -> "p" [] c = "B" -> "b" [] c = "C" -> "c"
    [] c = "R" -> "r" [] c = "S" -> "s" [] c = "T" -> "t" [] c = "U" -> "u"
    [] OTHER -> c

\* str.lower
Lower(s) == [i \in 1..Len(s) |-> LowerChar(s[i])]

\* str(n) for an integer n.
RECURSIVE NatToStr(_)
NatToStr(n) ==
  IF n < 10 THEN << DecimalDigits[n + 1] >>
  ELSE NatToStr(n \div 10) \o << DecimalDigits[(n % 10) + 1] >>

IntToStr(n) == IF n < 0 THEN << "-" >> \o NatToStr(-n) ELSE NatToStr(n)

RECURSIVE DecimalValue(_)
DecimalValue(s) ==
  IF s = <<>> THEN 0
  ELSE 10 * DecimalValue(SubSeq(s, 1, Len(s) - 1)) + DigitValue(s[Len(s)])

\* int(s) for a string: whitespace is stripped, one sign is allowed, the rest
\* must be decimal digits; anything else raises ValueError (ok = FALSE).
ParseInt(s) ==
  LET t == Strip(s)
      neg == t # <<>> /\ Head(t) = "-"
      d == IF neg THEN Tail(t) ELSE t
  IN  IF d # <<>> /\ \A i \in 1..Len(d) : IsDecimalChar(d[i])
      THEN [ok |-> TRUE, v |-> IF neg THEN -DecimalValue(d) ELSE DecimalValue(d)]
      ELSE [ok |-> FALSE, v |-> 0]

\* str.isdigit
IsDigit(s) == s # <<>> /\ \A i \in 1..Len(s) : IsDigitChar(s[i])

(***************************************************************************)
(* Python values and records                                               *)
(***************************************************************************)

\* A scalar field value: None, an int, a str, "absent" (no such attribute or
\* key) or "raise" (an attribute whose getter raises AttributeError, which
\* hasattr() reports as missing).
PyNone == [k |-> "none", v |-> 0, s |-> <<>>]
Absent == [k |-> "absent", v |-> 0, s |-> <<>>]
Raising == [k |-> "raise", v |-> 0, s |-> <<>>]
PyInt(n) == [k |-> "int", v |-> n, s |-> <<>>]
PyStr(str) == [k |-> "str", v |-> 0, s |-> str]

\* A due field: None, absent, an SDK object, a dict, or a plain string.
Due(kind, str, dtime, day) ==
  [k |-> kind, s |-> <<>>, string |-> str, datetime |-> dtime, date |-> day]
DueNone == Due("none", Absent, Absent, Absent)
DueAbsent == Due("absent", Absent, Absent, Absent)
DueStr(str) == [Due("str", Absent, Absent, Absent) EXCEPT !.s = str]

\* A labels field: None, absent or a list of scalars.
Labels(kind, items) == [k |-> kind, l |-> items]

\* Truth value of a scalar.
Truthy(x) == (x.k = "int" /\ x.v # 0) \/ (x.k = "str" /\ x.s # <<>>)

\* str(x) for a scalar.
PyStrOf(x) ==
  CASE x.k = "str" -> x.s
    [] x.k = "int" -> IntToStr(x.v)
    [] OTHER -> << "N", "o", "n", "e" >>

\* int(x) for a scalar: ok = FALSE when it raises (TypeError for None,
\* ValueError for a string that is no integer literal).
PyIntOf(x) ==
  CASE x.k = "int" -> [ok |-> TRUE, v |-> x.v]
    [] x.k = "str" -> ParseInt(x.s)
    [] OTHER -> [ok |-> FALSE, v |-> 0]

\* A record is a function from field names to values.  The attribute branch
\* returns the value unless the attribute is missing or its getter fails;
\* the mapping branch returns the key's value or the default.  A record
\* holds each field once, so both branches read obj[attr].
_get(obj, attr, default) ==
  IF obj[attr].k \in {"absent", "raise"} THEN default ELSE obj[attr]

\* One element of an API result: a record, or a page (a list of records).
Page(items) == [isList |-> TRUE, items |-> items]
Item(rec) == [isList |-> FALSE, items |-> << rec >>]

RECURSIVE _as_list(_)
_as_list(maybe_iterable) ==
  IF maybe_iterable = <<>> THEN <<>>
  ELSE Head(maybe_iterable).items \o _as_list(Tail(maybe_iterable))

\* a or b or c
Or3(a, b, c) == IF Truthy(a) THEN a ELSE IF Truthy(b) THEN b ELSE c

\* getattr(due_obj, name, None): only an SDK object has the attribute.
DueAttr(due_obj, name) ==
  IF due_obj.k = "obj" /\ due_obj[name].k # "absent" THEN due_obj[name] ELSE PyNone

\* due_obj.get(name) on a dict.
DueKey(due_obj, name) ==
  IF due_obj[name].k # "absent" THEN due_obj[name] ELSE PyNone

\* bool(due_obj): None, {} and "" are false.
DueTruthy(due_obj) ==
  CASE due_obj.k \in {"none", "absent"} -> FALSE
    [] due_obj.k = "dict" ->
         \E name \in {"string", "datetime", "date"} : due_obj[name].k # "absent"
    [] due_obj.k = "str" -> due_obj.s # <<>>
    [] OTHER -> TRUE

\* As _format_due, with the timestamp preferred to the human string.
_format_due_datetime_first(due_obj) ==
  IF ~DueTruthy(due_obj) THEN <<>>
  ELSE LET s == Or3(DueAttr(due_obj, "datetime"), DueAttr(due_obj, "string"),
                    DueAttr(due_obj, "date"))
       IN  IF Truthy(s) THEN PyStrOf(s)
           ELSE IF due_obj.k = "dict"
           THEN LET d == Or3(DueKey(due_obj, "datetime"), DueKey(due_obj, "string"),
                             DueKey(due_obj, "date"))
                IN  IF Truthy(d) THEN PyStrOf(d) ELSE <<>>
           ELSE <<>>

_format_due(due_obj) ==
  IF ~DueTruthy(due_obj) THEN <<>>
  ELSE LET s == Or3(DueAttr(due_obj, "string"), DueAttr(due_obj, "datetime"),
                    DueAttr(due_obj, "date"))
       IN  IF Truthy(s) THEN PyStrOf(s)
           ELSE IF due_obj.k = "dict"
           THEN LET d == Or3(DueKey(due_obj, "string"), DueKey(due_obj, "datetime"),
                             DueKey(due_obj, "date"))
                IN  IF Truthy(d) THEN PyStrOf(d) ELSE <<>>
           ELSE <<>>

(***************************************************************************)
(* Constants of the program                                                *)
(***************************************************************************)

NumColumns == 5
DefaultPriority == 3
MinExcludable == 1
MaxExcludable == 4
other_col == << "O", "t", "h", "e", "r" >>
Unassigned == << "U", "n", "a", "s", "s", "i", "g", "n", "e", "d" >>
ColumnPrefix == << "C", "o", "l", "u", "m", "n", " " >>
DefaultProjectName == << "T", "o", "d", "o", "i", "s", "t", " ", "P", "r", "o", "j", "e", "c", "t" >>

(***************************************************************************)
(* Inputs: the environment and what the Todoist API returns                *)
(***************************************************************************)

MaxTasks == 3
MaxWide == 12

\* EXCLUDE_PRIORITIES
ExcludeInputs ==
  { <<>>, << "4" >>, << "1", ",", " ", "0", "4", " ", ",", "x", ",", "9" >>, << "3" >>, << "sup2", ",", "4" >> }

\* SECTIONS
SectionsInputs ==
  { <<>>,
    << "T", "o", " ", "D", "o", "|", "D", "o", "n", "e" >>,
    << " ", "T", "o", " ", "D", "o", " ", "|", " ", "|", "R", "&", "D" >>,
    << "D", "o", "n", "e", "|", "D", "o", "n", "e" >>,
    << "O", "t", "h", "e", "r", "|", "T", "o", " ", "D", "o" >>,
    << "S", "1", "|", "S", "2", "|", "S", "3", "|", "S", "4", "|", "S", "5", "|", "S", "6" >> }

\* TODOIST_PROJECT_ID and TODOIST_PROJECT_NAME
ProjectEnvInputs ==
  { [PROJECT_ID |-> << "7" >>, PROJECT_NAME |-> <<>>],
    [PROJECT_ID |-> <<>>, PROJECT_NAME |-> << "T", "O", "D", "O" >>],
    [PROJECT_ID |-> <<>>, PROJECT_NAME |-> << "M", "o", "n" >>],
    [PROJECT_ID |-> <<>>, PROJECT_NAME |-> <<>>] }

\* api.get_projects(): an unnamed project, then a page holding "Todo".
ProjectsInputs ==
  { << Item([id |-> PyInt(3), name |-> PyNone]),
       Page(<< [id |-> PyInt(7), name |-> PyStr(<< "T", "o", "d", "o" >>)] >>) >> }

\* api.get_project(project_id)
ProjectInputs ==
  { [id |-> PyStr(<< "7" >>), name |-> PyStr(<< "R", "&", "D" >>)],
    [id |-> PyStr(<< "7" >>), name |-> PyNone] }

Task(id, order, priority, content, due, labels, section_id, url) ==
  [id |-> id, order |-> order, priority |-> priority, content |-> content,
   due |-> due, labels |-> labels, section_id |-> section_id, url |-> url]

NoLabels == Labels("absent", <<>>)

TaskPool ==
  << Task(PyStr(<< "1", "0" >>), PyInt(1), PyInt(4), PyStr(<< "A" >>), DueNone,
          Labels("list", <<>>), PyStr(<< "1" >>), PyStr(<< "u", "1" >>)),
     Task(PyInt(2), PyInt(1), PyInt(1), PyStr(<< "B" >>),
          Due("obj", PyStr(<< "M", "o", "n" >>), PyStr(<< "2", "0", "2", "4", "-", "0", "1", "-", "0", "1", "T", "0", "0", ":", "0", "0" >>), Absent),
          Labels("none", <<>>), PyInt(2), Absent),
     Task(PyInt(3), Absent, Absent, PyStr(<< "A" >>),
          Due("dict", PyStr(<<>>), Absent, PyStr(<< "2", "0", "2", "4", "-", "0", "1", "-", "0", "1" >>)),
          NoLabels, Absent, PyNone),
     Task(PyInt(4), PyStr(<< "x" >>), PyStr(<< " ", "2" >>), PyStr(<< "R", "&", "D" >>), DueNone,
          Labels("list", << PyStr(<< "R", "&", "D" >>), PyInt(5) >>), PyStr(<< "3" >>), Absent),
     Task(PyStr(<< "1", "0" >>), PyInt(1), PyStr(<< "4" >>), PyStr(<< "A" >>), DueAbsent,
          NoLabels, PyInt(1), PyStr(<< "u", "5" >>)),
     Task(PyInt(6), PyNone, Raising, PyNone, DueStr(<< "M", "o", "n" >>),
          NoLabels, PyInt(9), Absent),
     Task(PyInt(7), PyInt(0), PyInt(2), PyInt(5), DueNone,
          NoLabels, PyInt(1), Absent) >>

\* The i-th of a run of tasks that each sit in a section of their own.
WideTask(i) ==
  Task(PyInt(i), PyInt(i % 2), Absent, PyStr(<< "A" >>), DueAbsent, NoLabels,
       PyInt(i), Absent)

RECURSIVE SetToSeq(_)
SetToSeq(S) ==
  IF S = {} THEN <<>>
  ELSE LET m == CHOOSE x \in S : \A y \in S : x <= y
       IN  << m >> \o SetToSeq(S \ {m})

Reverse(seq) == [i \in 1..Len(seq) |-> seq[Len(seq) + 1 - i]]

PoolPick(S) == LET idx == SetToSeq(S) IN [i \in 1..Len(idx) |-> TaskPool[idx[i]]]

\* api.get_tasks(project_id=...): up to MaxTasks tasks of the pool in either
\* order, or a run of up to MaxWide tasks in distinct sections.
TaskInputs ==
  { PoolPick(S) : S \in { X \in SUBSET (1..Len(TaskPool)) : Cardinality(X) <= MaxTasks } }
  \cup { Reverse(PoolPick(S)) :
           S \in { X \in SUBSET (1..Len(TaskPool)) : Cardinality(X) <= MaxTasks } }
  \cup { [i \in 1..n |-> WideTask(i)] : n \in 0..MaxWide }

Section(id, name) == [id |-> id, name |-> name]

\* api.get_sections(project_id=...)
SectionInputs ==
  { << Section(PyStr(<< "1" >>), PyStr(<< "T", "o", " ", "D", "o" >>)), Section(PyInt(2), PyStr(<< "D", "o", "n", "e" >>)),
       Section(PyInt(3), PyStr(<< "R", "&", "D" >>)) >>,
    << Section(PyInt(1), PyStr(<< "O", "t", "h", "e", "r" >>)), Section(PyInt(2), PyStr(<< "C", "o", "l", "u", "m", "n", " ", "2" >>)),
       Section(PyInt(3), PyNone) >>,
    [i \in 1..MaxWide |-> Section(PyInt(i), PyStr(<< "S" >> \o IntToStr(i)))] }

\* The ways a paginator may hand a list over: item by item, or as one page.
Paginations(list) ==
  { [i \in 1..Len(list) |-> Item(list[i])], << Page(list) >> }

(***************************************************************************)
(* State                                                                   *)
(***************************************************************************)

VARIABLES
  pc,                  \* where main()/build() stands
  exclude_raw,         \* build: exclude_raw
  exclude_set,         \* build: exclude_set
  project_id,          \* build: project_id
  project_name,        \* build: project_name
  tasks,               \* build: tasks
  section_name_by_id,  \* build: section_name_by_id
  view_models,         \* build: view_models
  configured,          \* build: configured
  col_titles,          \* build: col_titles
  buckets,             \* build: buckets (lists of indices into view_models)
  ordered_titles,      \* build: ordered_titles
  raised,              \* the steps that have raised so far
  stderr,              \* the diagnostics printed, in order
  stdout,              \* the task counts reported, in order
  dist,                \* dist/index.html: << >> or << the rendered board >>
  exit_code,           \* -1 while running, then the process's exit status
  due_obj,             \* _format_due: its argument
  due_str              \* _format_due: << >> or << its result >>

vars ==
  << pc, exclude_raw, exclude_set, project_id, project_name, tasks,
     section_name_by_id, view_models, configured, col_titles, buckets,
     ordered_titles, raised, stderr, stdout, dist, exit_code, due_obj,
     due_str >>

EmptyDict == [x \in {} |-> PyNone]

Fresh ==
  /\ exclude_raw = <<>>
  /\ exclude_set = {}
  /\ project_id = <<>>
  /\ project_name = <<>>
  /\ tasks = <<>>
  /\ section_name_by_id = EmptyDict
  /\ view_models = <<>>
  /\ configured = <<>>
  /\ col_titles = <<>>
  /\ buckets = EmptyDict
  /\ ordered_titles = <<>>
  /\ raised = {}
  /\ stderr = <<>>
  /\ stdout = <<>>
  /\ dist = <<>>
  /\ exit_code = -1

Init ==
  /\ pc = "build"
  /\ Fresh
  /\ due_obj = DueNone
  /\ due_str = <<>>

\* An exception leaves build(): control passes to main()'s handler.
Raise(step) ==
  /\ pc' = "except"
  /\ raised' = raised \cup {step}

\* sys.exit(1) after one message on stderr.
ExitWithError(msg) ==
  /\ pc' = "exited"
  /\ stderr' = Append(stderr, msg)
  /\ exit_code' = 1

(***************************************************************************)
(* build(): the exclusion set                                              *)
(***************************************************************************)

\* The tokens of the configuration string, stripped.
ExcludeParts(raw) ==
  IF raw = <<>> THEN <<>>
  ELSE LET parts == Split(raw, ",") IN [i \in 1..Len(parts) |-> Strip(parts[i])]

\* int(part) is reached for every part that isdigit() accepts.
ExcludeRaises(raw) ==
  \E i \in 1..Len(ExcludeParts(raw)) :
    LET part == ExcludeParts(raw)[i] IN IsDigit(part) /\ ~ParseInt(part).ok

ExcludeSet(raw) ==
  { n \in MinExcludable..MaxExcludable :
      \E i \in 1..Len(ExcludeParts(raw)) :
        LET part == ExcludeParts(raw)[i]
        IN  IsDigit(part) /\ ParseInt(part).ok /\ ParseInt(part).v = n }

parse_exclude ==
  /\ pc = "build"
  /\ \E env \in ExcludeInputs :
       /\ exclude_raw' = Strip(env)
       /\ IF ExcludeRaises(Strip(env))
          THEN /\ Raise("parse_exclude")
               /\ UNCHANGED exclude_set
          ELSE /\ pc' = "find_project_id"
               /\ exclude_set' = ExcludeSet(Strip(env))
               /\ UNCHANGED raised
  /\ UNCHANGED << project_id, project_name, tasks, section_name_by_id,
                  view_models, configured, col_titles, buckets, ordered_titles,
                  stderr, stdout, dist, exit_code >>
  /\ UNCHANGED << due_obj, due_str >>

(***************************************************************************)
(* Sorting: list.sort(key=...) is stable                                   *)
(***************************************************************************)

\* less[i][j] tells whether the key of seq[i] is less than that of seq[j].
\* The element at index i lands after the elements that are less than it
\* and after the equal ones that came before it.
StableSort(seq, less) ==
  LET n == Len(seq)
      rank(i) ==
        1 + Cardinality({ j \in 1..n : less[j][i] \/ (~less[i][j] /\ j < i) })
  IN  [p \in 1..n |-> seq[CHOOSE i \in 1..n : rank(i) = p]]

(***************************************************************************)
(* build(): project, tasks, sections                                       *)
(***************************************************************************)

\* find_project_id's loop: the id of the first project whose name matches
\* case-insensitively and whose id is truthy; << >> when there is none.
RECURSIVE MatchProject(_, _)
MatchProject(projects, PROJECT_NAME) ==
  IF projects = <<>> THEN <<>>
  ELSE LET p == Head(projects)
           name == _get(p, "name", PyNone)
           pid == _get(p, "id", PyNone)
       IN  IF Truthy(name) /\ Lower(PyStrOf(name)) = Lower(PROJECT_NAME) /\ Truthy(pid)
           THEN PyStrOf(pid)
           ELSE MatchProject(Tail(projects), PROJECT_NAME)

find_project_id ==
  /\ pc = "find_project_id"
  /\ \E env \in ProjectEnvInputs :
       \/ /\ env.PROJECT_ID # <<>>
          /\ project_id' = env.PROJECT_ID
          /\ pc' = "get_project"
          /\ UNCHANGED << raised, stderr, exit_code >>
       \/ /\ env.PROJECT_ID = <<>>
          /\ env.PROJECT_NAME = <<>>
          /\ ExitWithError("no_project_configured")
          /\ UNCHANGED << project_id, raised >>
       \/ /\ env.PROJECT_ID = <<>>
          /\ env.PROJECT_NAME # <<>>
          /\ Raise("get_projects")
          /\ UNCHANGED << project_id, stderr, exit_code >>
       \/ /\ env.PROJECT_ID = <<>>
          /\ env.PROJECT_NAME # <<>>
          /\ \E resp \in ProjectsInputs :
               LET found == MatchProject(_as_list(resp), env.PROJECT_NAME)
               IN  IF found # <<>>
                   THEN /\ project_id' = found
                        /\ pc' = "get_project"
                        /\ UNCHANGED << raised, stderr, exit_code >>
                   ELSE /\ ExitWithError("project_not_found")
                        /\ UNCHANGED << project_id, raised >>
  /\ UNCHANGED << exclude_raw, exclude_set, project_name, tasks,
                  section_name_by_id, view_models, configured, col_titles,
                  buckets, ordered_titles, stdout, dist >>
  /\ UNCHANGED << due_obj, due_str >>

ProjectName(project) ==
  LET name == _get(project, "name", PyStr(DefaultProjectName))
  IN  escape(IF Truthy(name) THEN name.s ELSE DefaultProjectName)

get_project ==
  /\ pc = "get_project"
  /\ \/ /\ Raise("get_project")
        /\ UNCHANGED project_name
     \/ /\ \E project \in ProjectInputs : project_name' = ProjectName(project)
        /\ pc' = "get_tasks"
        /\ UNCHANGED raised
  /\ UNCHANGED << exclude_raw, exclude_set, project_id, tasks,
                  section_name_by_id, view_models, configured, col_titles,
                  buckets, ordered_titles, stderr, stdout, dist, exit_code >>
  /\ UNCHANGED << due_obj, due_str >>

\* As get_tasks, with the error of the task listing swallowed the way the
\* section listing's is.
get_tasks_absorbing ==
  /\ pc = "get_tasks"
  /\ \/ /\ tasks' = <<>>
        /\ raised' = raised \cup {"get_tasks"}
     \/ /\ \E list \in TaskInputs : \E resp \in Paginations(list) :
             tasks' = _as_list(resp)
        /\ UNCHANGED raised
  /\ pc' = "get_sections"
  /\ UNCHANGED << exclude_raw, exclude_set, project_id, project_name,
                  section_name_by_id, view_models, configured, col_titles,
                  buckets, ordered_titles, stderr, stdout, dist, exit_code >>
  /\ UNCHANGED << due_obj, due_str >>

get_tasks ==
  /\ pc = "get_tasks"
  /\ \/ /\ Raise("get_tasks")
        /\ UNCHANGED tasks
     \/ /\ \E list \in TaskInputs : \E resp \in Paginations(list) :
             tasks' = _as_list(resp)
        /\ pc' = "get_sections"
        /\ UNCHANGED raised
  /\ UNCHANGED << exclude_raw, exclude_set, project_id, project_name,
                  section_name_by_id, view_models, configured, col_titles,
                  buckets, ordered_titles, stderr, stdout, dist, exit_code >>
  /\ UNCHANGED << due_obj, due_str >>

\* { str(_get(s, "id")): _get(s, "name", "") for s in sections }: a later
\* section with the same id replaces an earlier one.
RECURSIVE SectionDict(_)
SectionDict(sections) ==
  IF sections = <<>> THEN EmptyDict
  ELSE LET s == sections[Len(sections)]
       IN  (PyStrOf(_get(s, "id", PyNone)) :> _get(s, "name", PyStr(<<>>)))
             @@ SectionDict(SubSeq(sections, 1, Len(sections) - 1))

\* The try block around the section listing: an error leaves the map empty.
get_sections ==
  /\ pc = "get_sections"
  /\ \/ /\ section_name_by_id' = EmptyDict
        /\ raised' = raised \cup {"get_sections"}
     \/ /\ \E list \in SectionInputs : \E resp \in Paginations(list) :
             section_name_by_id' = SectionDict(_as_list(resp))
        /\ UNCHANGED raised
  /\ pc' = "sort_tasks"
  /\ UNCHANGED << exclude_raw, exclude_set, project_id, project_name, tasks,
                  view_models, configured, col_titles, buckets, ordered_titles,
                  stderr, stdout, dist, exit_code >>
  /\ UNCHANGED << due_obj, due_str >>

\* sort_key(t) = (order, tid)
sort_key(t) ==
  LET o == _get(t, "order", PyInt(0))
      order == PyIntOf(IF Truthy(o) THEN o ELSE PyInt(0))
  IN  [order |-> IF order.ok THEN order.v ELSE 0,
       tid |-> PyStrOf(_get(t, "id", PyStr(<<>>)))]

SortKeyLess(a, b) ==
  \/ a.order < b.order
  \/ a.order = b.order /\ StrLess(a.tid, b.tid)

TaskLess(t, u) == SortKeyLess(sort_key(t), sort_key(u))

\* tasks.sort(key=sort_key)
SortTasks(ts) ==
  StableSort(ts, [i \in 1..Len(ts) |-> [j \in 1..Len(ts) |-> TaskLess(ts[i], ts[j])]])

sort_tasks ==
  /\ pc = "sort_tasks"
  /\ tasks' = SortTasks(tasks)
  /\ pc' = "view_models"
  /\ UNCHANGED << exclude_raw, exclude_set, project_id, project_name,
                  section_name_by_id, view_models, configured, col_titles,
                  buckets, ordered_titles, raised, stderr, stdout, dist,
                  exit_code >>
  /\ UNCHANGED << due_obj, due_str >>

(***************************************************************************)
(* build(): view models                                                    *)
(***************************************************************************)

\* int(_get(t, "priority", 3)), 3 when int() raises.
CoercedPriority(t) ==
  LET r == PyIntOf(_get(t, "priority", PyInt(DefaultPriority)))
  IN  IF r.ok THEN r.v ELSE DefaultPriority

\* section_name_by_id.get(str(section_id), "") or "", "" without a section id.
SectionName(t, names) ==
  LET section_id == _get(t, "section_id", PyNone)
      key == PyStrOf(section_id)
      name == IF key \in DOMAIN names THEN names[key] ELSE PyStr(<<>>)
  IN  IF section_id.k = "none" \/ ~Truthy(name) THEN PyStr(<<>>) ELSE name

ContentOf(t) ==
  LET c == _get(t, "content", PyStr(<<>>)) IN IF Truthy(c) THEN c ELSE PyStr(<<>>)

\* escape() of a value that is no string raises.
ViewModelRaises(t, names) == ContentOf(t).k # "str" \/ SectionName(t, names).k # "str"

LabelsOf(t) ==
  LET l == _get(t, "labels", Labels("list", <<>>))
      items == IF l.k = "list" THEN l.l ELSE <<>>
  IN  [i \in 1..Len(items) |-> escape(PyStrOf(items[i]))]

ViewModel(t, names) ==
  LET url == _get(t, "url", PyStr(<<>>))
      section == escape(SectionName(t, names).s)
  IN  [content |-> escape(ContentOf(t).s),
       due |-> escape(_format_due(_get(t, "due", DueNone))),
       labels |-> LabelsOf(t),
       priority_class |-> << "p" >> \o IntToStr(CoercedPriority(t)),
       url |-> IF Truthy(url) THEN url ELSE PyStr(<<>>),
       section |-> IF section # <<>> THEN section ELSE Unassigned]

\* The tasks the loop does not skip.
Kept(ts, excluded) == SelectSeq(ts, LAMBDA t : CoercedPriority(t) \notin excluded)

build_view_models ==
  /\ pc = "view_models"
  /\ LET kept == Kept(tasks, exclude_set)
     IN  IF \E i \in 1..Len(kept) : ViewModelRaises(kept[i], section_name_by_id)
         THEN /\ Raise("view_models")
              /\ UNCHANGED view_models
         ELSE /\ view_models' =
                   [i \in 1..Len(kept) |-> ViewModel(kept[i], section_name_by_id)]
              /\ pc' = "choose_columns"
              /\ UNCHANGED raised
  /\ UNCHANGED << exclude_raw, exclude_set, project_id, project_name, tasks,
                  section_name_by_id, configured, col_titles, buckets,
                  ordered_titles, stderr, stdout, dist, exit_code >>
  /\ UNCHANGED << due_obj, due_str >>

(***************************************************************************)
(* build(): columns and buckets                                            *)
(***************************************************************************)

Range(seq) == { seq[i] : i \in 1..Len(seq) }

\* [s.strip() for s in configured.split("|") if s.strip()]
ConfiguredTitles(conf) ==
  LET parts == Split(conf, "|")
      kept == SelectSeq(parts, LAMBDA part : Strip(part) # <<>>)
  IN  [i \in 1..Len(kept) |-> Strip(kept[i])]

\* The sections of the view models in order of first appearance.
RECURSIVE Discovered(_)
Discovered(vms) ==
  IF vms = <<>> THEN <<>>
  ELSE LET before == Discovered(SubSeq(vms, 1, Len(vms) - 1))
           sec == vms[Len(vms)].section
       IN  IF sec # <<>> /\ sec \notin Range(before) THEN Append(before, sec)
           ELSE before

\* As FirstN, keeping four: "first 4 discovered sections".
FirstFour(seq, n) == SubSeq(seq, 1, IF Len(seq) < 4 THEN Len(seq) ELSE 4)

FirstN(seq, n) == SubSeq(seq, 1, IF Len(seq) < n THEN Len(seq) ELSE n)

\* As PadColumns, padding to four: "Pad to 4 columns".
RECURSIVE PadToFour(_)
PadToFour(titles) ==
  IF Len(titles) >= 4 THEN titles
  ELSE PadToFour(Append(titles, ColumnPrefix \o IntToStr(Len(titles) + 1)))

\* while len(col_titles) < 5: col_titles.append(f"Column {len(col_titles)+1}")
RECURSIVE PadColumns(_)
PadColumns(titles) ==
  IF Len(titles) >= NumColumns THEN titles
  ELSE PadColumns(Append(titles, ColumnPrefix \o IntToStr(Len(titles) + 1)))

ResolveColumns(conf, vms) ==
  PadColumns(IF conf # <<>> THEN ConfiguredTitles(conf)
             ELSE FirstN(Discovered(vms), NumColumns))

choose_columns ==
  /\ pc = "choose_columns"
  /\ \E env \in SectionsInputs :
       /\ configured' = Strip(env)
       /\ col_titles' = ResolveColumns(Strip(env), view_models)
  /\ pc' = "bucket_tasks"
  /\ UNCHANGED << exclude_raw, exclude_set, project_id, project_name, tasks,
                  section_name_by_id, view_models, buckets, ordered_titles,
                  raised, stderr, stdout, dist, exit_code >>
  /\ UNCHANGED << due_obj, due_str >>

\* The key of the bucket a view model is appended to.
BucketOf(t, title_set) ==
  LET sec == IF t.section # <<>> THEN t.section ELSE Unassigned
  IN  IF sec \in title_set THEN sec ELSE other_col

\* buckets after the loop: each list holds the indices of its view models in
\* the order of view_models.
Bucketed(titles, vms) ==
  [k \in Range(titles) \cup {other_col} |->
     SelectSeq([i \in 1..Len(vms) |-> i],
               LAMBDA i : BucketOf(vms[i], Range(titles)) = k)]

bucket_tasks ==
  /\ pc = "bucket_tasks"
  /\ buckets' = Bucketed(col_titles, view_models)
  /\ pc' = "sort_buckets"
  /\ UNCHANGED << exclude_raw, exclude_set, project_id, project_name, tasks,
                  section_name_by_id, view_models, configured, col_titles,
                  ordered_titles, raised, stderr, stdout, dist, exit_code >>
  /\ UNCHANGED << due_obj, due_str >>

\* As vm_sort_key, parsing the whole class string: int("p4") raises, so the
\* priority is always the fallback.
vm_sort_key_unsliced(t) ==
  LET r == ParseInt(t.priority_class)
  IN  [pr |-> IF r.ok THEN r.v ELSE DefaultPriority, due |-> t.due,
       content |-> t.content]

\* vm_sort_key(t) = (pr, t["due"], t["content"])
vm_sort_key(t) ==
  LET r == ParseInt(Tail(t.priority_class))
  IN  [pr |-> IF r.ok THEN r.v ELSE DefaultPriority, due |-> t.due,
       content |-> t.content]

VmKeyLess(a, b) ==
  \/ a.pr < b.pr
  \/ a.pr = b.pr /\ StrLess(a.due, b.due)
  \/ a.pr = b.pr /\ a.due = b.due /\ StrLess(a.content, b.content)

SortBucket(bucket, vms) ==
  StableSort(bucket,
             [p \in 1..Len(bucket) |-> [q \in 1..Len(bucket) |->
                VmKeyLess(vm_sort_key(vms[bucket[p]]), vm_sort_key(vms[bucket[q]]))]])

sort_buckets ==
  /\ pc = "sort_buckets"
  /\ buckets' = [k \in DOMAIN buckets |-> SortBucket(buckets[k], view_models)]
  /\ pc' = "order_titles"
  /\ UNCHANGED << exclude_raw, exclude_set, project_id, project_name, tasks,
                  section_name_by_id, view_models, configured, col_titles,
                  ordered_titles, raised, stderr, stdout, dist, exit_code >>
  /\ UNCHANGED << due_obj, due_str >>

\* If "Other" is empty, drop it; else place it at the end.
OrderedTitles(titles, bkts) ==
  IF bkts[other_col] = <<>> THEN titles ELSE Append(titles, other_col)

order_titles ==
  /\ pc = "order_titles"
  /\ ordered_titles' = OrderedTitles(col_titles, buckets)
  /\ buckets' = IF buckets[other_col] = <<>>
                THEN [k \in DOMAIN buckets \ {other_col} |-> buckets[k]]
                ELSE buckets
  /\ pc' = "render"
  /\ UNCHANGED << exclude_raw, exclude_set, project_id, project_name, tasks,
                  section_name_by_id, view_models, configured, col_titles,
                  raised, stderr, stdout, dist, exit_code >>
  /\ UNCHANGED << due_obj, due_str >>

(***************************************************************************)
(* build(): output; main()                                                 *)
(***************************************************************************)

\* What the template walks: for each column in order, tasks_by_section.get(col, []).
Board(titles, bkts) ==
  [c \in 1..Len(titles) |->
     [title |-> titles[c],
      items |-> IF titles[c] \in DOMAIN bkts THEN bkts[titles[c]] ELSE <<>>]]

render_and_write ==
  /\ pc = "render"
  /\ dist' = << [project_name |-> project_name,
                 board |-> Board(ordered_titles, buckets)] >>
  /\ stdout' = Append(stdout, Len(view_models))
  /\ pc' = "done"
  /\ exit_code' = 0
  /\ UNCHANGED << exclude_raw, exclude_set, project_id, project_name, tasks,
                  section_name_by_id, view_models, configured, col_titles,
                  buckets, ordered_titles, raised, stderr >>
  /\ UNCHANGED << due_obj, due_str >>

\* except Exception as e: print("ERROR:", e, file=sys.stderr); sys.exit(1)
main_except ==
  /\ pc = "except"
  /\ ExitWithError("ERROR")
  /\ UNCHANGED << exclude_raw, exclude_set, project_id, project_name, tasks,
                  section_name_by_id, view_models, configured, col_titles,
                  buckets, ordered_titles, raised, stdout, dist >>
  /\ UNCHANGED << due_obj, due_str >>

Next ==
  \/ parse_exclude
  \/ find_project_id
  \/ get_project
  \/ get_tasks
  \/ get_sections
  \/ sort_tasks
  \/ build_view_models
  \/ choose_columns
  \/ bucket_tasks
  \/ sort_buckets
  \/ order_titles
  \/ render_and_write
  \/ main_except

Spec == Init /\ [][Next]_vars

(***************************************************************************)
(* _format_due on its own                                                  *)
(***************************************************************************)

DueFieldInputs ==
  { Absent, PyNone, PyStr(<<>>), PyStr(<< "M", "o", "n" >>), PyStr(<< "2", "0", "2", "4", "-", "0", "1", "-", "0", "1", "T", "0", "0", ":", "0", "0" >>),
    PyInt(0), PyInt(5) }

DueInputs ==
  { DueNone, DueAbsent, DueStr(<<>>), DueStr(<< "M", "o", "n" >>) }
  \cup { Due(kind, a, b, c) :
           kind \in {"obj", "dict"}, a \in DueFieldInputs, b \in DueFieldInputs,
           c \in DueFieldInputs }

InitDue ==
  /\ pc = "format_due"
  /\ Fresh
  /\ due_obj \in DueInputs
  /\ due_str = <<>>

format_due ==
  /\ pc = "format_due"
  /\ due_str' = << _format_due(due_obj) >>
  /\ pc' = "formatted"
  /\ UNCHANGED << exclude_raw, exclude_set, project_id, project_name, tasks,
                  section_name_by_id, view_models, configured, col_titles,
                  buckets, ordered_titles, raised, stderr, stdout, dist,
                  exit_code, due_obj >>

NextDue == format_due

SpecDue == InitDue /\ [][NextDue]_vars

(***************************************************************************)
(* Properties                                                              *)
(***************************************************************************)

ColumnsChosen ==
  pc \in {"bucket_tasks", "sort_buckets", "order_titles", "render", "done"}
Bucketing == pc \in {"sort_buckets", "order_titles", "render", "done"}
BucketsSorted == pc \in {"order_titles", "render", "done"}
TitlesOrdered == pc \in {"render", "done"}

Distinct(seq) == \A i, j \in 1..Len(seq) : i # j => seq[i] # seq[j]

SectionsSeen == { view_models[i].section : i \in 1..Len(view_models) }

\* The index of the first view model with this section.
FirstSeen(sec) ==
  CHOOSE i \in 1..Len(view_models) :
    /\ view_models[i].section = sec
    /\ \A j \in 1..(i - 1) : view_models[j].section # sec

\* How many sections appear before this one does.
SeenBefore(sec) ==
  Cardinality({ other \in SectionsSeen : FirstSeen(other) < FirstSeen(sec) })

\* The number of tasks whose coerced priority is excluded.
ExcludedCount ==
  Cardinality({ i \in 1..Len(tasks) : CoercedPriority(tasks[i]) \in exclude_set })

\* The places (column, position) of a rendered board, and those holding the
\* view model with index i.
Places(board) ==
  UNION { { << c, j >> : j \in 1..Len(board[c].items) } : c \in 1..Len(board) }
PlacesOf(board, i) == { pl \in Places(board) : board[pl[1]].items[pl[2]] = i }

\* C1: the rendered board lists every view model in exactly one place, and
\* the column lists together hold as many entries as there are input tasks
\* less those of excluded priority.
C1_BoardPartitionsViewModels ==
  pc = "done" =>
    LET board == dist[1].board
    IN  /\ \A i \in 1..Len(view_models) : Cardinality(PlacesOf(board, i)) = 1
        /\ Cardinality(Places(board)) = Len(tasks) - ExcludedCount

\* C2: the column titles are pairwise distinct, before and after the
\* overflow title is appended.
C2_TitlesDistinct ==
  /\ ColumnsChosen => Distinct(col_titles)
  /\ TitlesOrdered => Distinct(ordered_titles)

\* The titles before padding: the configured ones, or one per section seen
\* up to five.
C3_Unpadded ==
  IF configured # <<>> THEN Len(ConfiguredTitles(configured))
  ELSE IF Cardinality(SectionsSeen) < 5 THEN Cardinality(SectionsSeen) ELSE 5

C4_OtherIffOverflow ==
  TitlesOrdered =>
    LET overflow == \E i \in 1..Len(view_models) :
                      view_models[i].section \notin Range(col_titles)
        n == Len(ordered_titles)
    IN  /\ (other_col \in Range(ordered_titles)) <=> overflow
        /\ overflow =>
             /\ ordered_titles[n] = other_col
             /\ \A c \in 1..(n - 1) : ordered_titles[c] # other_col

\* The exclusion set the configuration string denotes: the integers 1..4
\* written by some comma-separated token.
C5_Denoted(raw) ==
  { n \in 1..4 :
      \E i \in 1..Len(ExcludeParts(raw)) :
        LET part == ExcludeParts(raw)[i]
        IN  /\ part # <<>>
            /\ \A c \in 1..Len(part) : IsDecimalChar(part[c])
            /\ DecimalValue(part) = n }

\* C5: tokens that are no digit in 1..4 are ignored; a task is on the board
\* exactly when its coerced priority is not excluded, and the reported count
\* is the number of view models.
C5_ExclusionFilter ==
  /\ "parse_exclude" \notin raised
  /\ pc \notin {"build", "except", "exited"} => exclude_set = C5_Denoted(exclude_raw)
  /\ pc = "done" =>
       /\ Len(view_models) =
            Cardinality({ i \in 1..Len(tasks) :
                            CoercedPriority(tasks[i]) \notin C5_Denoted(exclude_raw) })
       /\ \A i \in 1..Len(view_models) : PlacesOf(dist[1].board, i) # {}
       /\ stdout = << Len(view_models) >>

\* C6: with configured titles, a kept task whose section name equals a
\* configured title is in that title's bucket and not in "Other"; when that
\* is so for every kept task, there is no "Other" column.
C6_ConfiguredTitleMatch ==
  (Bucketing /\ configured # <<>>) =>
    LET kept == Kept(tasks, exclude_set)
        name(i) == SectionName(kept[i], section_name_by_id).s
        titles == Range(ConfiguredTitles(configured))
    IN  /\ \A i \in 1..Len(kept) :
             name(i) \in titles =>
               /\ name(i) \in DOMAIN buckets
               /\ i \in Range(buckets[name(i)])
               /\ other_col \in DOMAIN buckets => i \notin Range(buckets[other_col])
        /\ (TitlesOrdered /\ \A i \in 1..Len(kept) : name(i) \in titles) =>
             other_col \notin Range(ordered_titles)

RetrievalRaised(calls) == raised \cap calls # {}

Aborted ==
  /\ pc \in {"except", "exited"}
  /\ dist = <<>>
  /\ pc = "exited" => exit_code = 1 /\ Len(stderr) = 1

\* C7 as stated: an error from any retrieval call aborts the build.
C7_AnyRetrievalErrorAborts ==
  RetrievalRaised({"get_projects", "get_project", "get_tasks", "get_sections"})
    => Aborted

\* C7: an error from the project lookup or the task listing aborts the build
\* (exit status 1, one diagnostic, no file); an error from the section
\* listing is caught and the build goes on with an empty section map.
C7_LookupOrTaskErrorAborts ==
  /\ RetrievalRaised({"get_projects", "get_project", "get_tasks"}) => Aborted
  /\ "get_sections" \in raised => section_name_by_id = EmptyDict
  /\ pc = "done" => raised \subseteq {"get_sections"}

C7_Witness ==
  /\ "get_tasks" \in raised
  /\ pc = "exited"
  /\ exit_code = 1
  /\ stderr = << "ERROR" >>

\* The sort key of the view model with index i, and its order.
C8_Key(i) ==
  << ParseInt(Tail(view_models[i].priority_class)).v, view_models[i].due,
     view_models[i].content >>
C8_KeyLeq(a, b) ==
  \/ a[1] < b[1]
  \/ a[1] = b[1] /\ StrLess(a[2], b[2])
  \/ a[1] = b[1] /\ a[2] = b[2] /\ ~StrLess(b[3], a[3])

\* The position an entry of bucket k had before the bucket was sorted.
C8_PositionBefore(k, i) ==
  LET before == Bucketed(col_titles, view_models)[k]
  IN  CHOOSE p \in 1..Len(before) : before[p] = i

\* C8: every bucket is in ascending (priority, due, content) order, entries
\* with equal keys are in the order they had before, and sorting the bucket
\* again changes nothing.
C8_BucketsSortedStable ==
  BucketsSorted =>
    \A k \in DOMAIN buckets :
      LET b == buckets[k]
      IN  /\ \A p, q \in 1..Len(b) : p < q => C8_KeyLeq(C8_Key(b[p]), C8_Key(b[q]))
          /\ \A p, q \in 1..Len(b) :
               (p < q /\ C8_Key(b[p]) = C8_Key(b[q])) =>
                 C8_PositionBefore(k, b[p]) < C8_PositionBefore(k, b[q])
          /\ SortBucket(b, view_models) = b

C8_Witness ==
  /\ pc = "done"
  /\ \E k \in DOMAIN buckets :
       /\ buckets[k] # Bucketed(col_titles, view_models)[k]
       /\ \E p, q \in 1..Len(buckets[k]) :
            /\ p < q
            /\ C8_Key(buckets[k][p]) = C8_Key(buckets[k][q])
            /\ view_models[buckets[k][p]] # view_models[buckets[k][q]]

C9_Present(field) == field.k \in {"int", "str"} /\ Truthy(field)

\* What the due formatter is to return for an absent, object or mapping due.
C9_Expected(d) ==
  IF d.k \in {"none", "absent"} THEN <<>>
  ELSE IF C9_Present(d.string) THEN PyStrOf(d.string)
  ELSE IF C9_Present(d.datetime) THEN PyStrOf(d.datetime)
  ELSE IF C9_Present(d.date) THEN PyStrOf(d.date)
  ELSE <<>>

\* C9: _format_due returns "" for an absent due and otherwise the first of
\* string, datetime, date that is present and truthy, stringified, or "".
C9_FormatDuePreference ==
  (pc = "formatted" /\ due_obj.k \in {"none", "absent", "obj", "dict"}) =>
    due_str = << C9_Expected(due_obj) >>

C9_Witness ==
  /\ pc = "formatted"
  /\ due_obj.k = "dict"
  /\ due_obj.string = PyStr(<< "M", "o", "n" >>)
  /\ due_obj.datetime = PyStr(<< "2", "0", "2", "4", "-", "0", "1", "-", "0", "1", "T", "0", "0", ":", "0", "0" >>)
  /\ due_str = << << "M", "o", "n" >> >>

====
